---- MODULE Spec2Model ----
(***************************************************************************)
(* Model of the medical chatbot backend: the two Flask handler modules     *)
(* (main.py and app.py), their request validation, the outbound calls to   *)
(* the LLM gateway and the bullet formatter of main.py.                    *)
(*                                                                         *)
(* Text is a sequence of characters.  A character is a one-character       *)
(* string, except that a run of ordinary characters (no newline, no        *)
(* whitespace or bullet marker at either end) may be written as one        *)
(* element, e.g. "foo" or a whole fixed message of the program.            *)
(***************************************************************************)
EXTENDS Integers, Sequences, FiniteSets, TLC

(***************************************************************************)
(* Characters                                                              *)
(***************************************************************************)
NL     == "\n"
SP     == " "
TAB    == "\t"
STAR   == "*"
DASH   == "-"
BULLET == "U+2022"

\* what str.strip() with no argument removes (within one line)
Whitespace == {SP, TAB, NL}
\* the argument of ln.lstrip("*-<U+2022> ")
MarkerChars == {STAR, DASH, BULLET, SP}

(***************************************************************************)
(* Bounds of the model                                                     *)
(***************************************************************************)
\* longest text the formatter is applied to in SpecFmt
MaxLen == 4
\* longest content string a gateway reply carries in Spec
MaxContentLen == 2

(***************************************************************************)
(* Python string helpers, computed as the interpreter computes them        *)
(***************************************************************************)
RECURSIVE LStripChars(_, _)
LStripChars(s, chars) ==
    IF s = <<>> THEN <<>>
    ELSE IF Head(s) \in chars THEN LStripChars(Tail(s), chars)
    ELSE s

RECURSIVE RStripChars(_, _)
RStripChars(s, chars) ==
    IF s = <<>> THEN <<>>
    ELSE IF s[Len(s)] \in chars THEN RStripChars(SubSeq(s, 1, Len(s) - 1), chars)
    ELSE s

\* str.strip()
Strip(s) == RStripChars(LStripChars(s, Whitespace), Whitespace)

\* text.split("\n"): always at least one element
RECURSIVE SplitAcc(_, _, _)
SplitAcc(s, cur, acc) ==
    IF s = <<>> THEN Append(acc, cur)
    ELSE IF Head(s) = NL THEN SplitAcc(Tail(s), <<>>, Append(acc, cur))
    ELSE SplitAcc(Tail(s), Append(cur, Head(s)), acc)

SplitLines(s) == SplitAcc(s, <<>>, <<>>)

\* "\n".join(parts)
RECURSIVE JoinLines(_)
JoinLines(parts) ==
    IF parts = <<>> THEN <<>>
    ELSE IF Len(parts) = 1 THEN parts[1]
    ELSE parts[1] \o <<NL>> \o JoinLines(Tail(parts))

(***************************************************************************)
(* main.py _format_as_bullets                                              *)
(***************************************************************************)
\* the loop body: one stripped line to zero or one bullet line
\* mutant: the markers are removed one character only
BulletOfLine_OneMarker(ln) ==
    IF ln = <<>> THEN <<>>
    ELSE LET clean == IF Head(ln) \in MarkerChars THEN Tail(ln) ELSE ln
         IN  IF clean # <<>> THEN << <<DASH, SP>> \o clean >> ELSE <<>>

BulletOfLine(ln) ==
    IF ln = <<>> THEN <<>>
    ELSE LET clean == LStripChars(ln, MarkerChars)
         IN  IF clean # <<>> THEN << <<DASH, SP>> \o clean >> ELSE <<>>

RECURSIVE BulletLines(_)
BulletLines(lines) ==
    IF lines = <<>> THEN <<>>
    ELSE BulletOfLine(Strip(Head(lines))) \o BulletLines(Tail(lines))

\* mutant: no fallback to the original text when no line survives
format_as_bullets_NoFallback(text) ==
    JoinLines(BulletLines(SplitLines(text)))

format_as_bullets(text) ==
    LET bullet_lines == BulletLines(SplitLines(text))
    IN  IF bullet_lines # <<>> THEN JoinLines(bullet_lines) ELSE text

(***************************************************************************)
(* Python values: a string or None                                         *)
(***************************************************************************)
Some(s) == [none |-> FALSE, str |-> s]
None    == [none |-> TRUE, str |-> <<>>]
\* (v or ""): None and the empty string both give ""
OrEmpty(v) == IF v.none THEN <<>> ELSE v.str

(***************************************************************************)
(* Fixed texts of the two modules                                          *)
(***************************************************************************)
MsgUnreadable    == "We couldn't read that image. Please upload a valid JPG or PNG."
MsgTimeout       == "Request timed out. Please try again."
MsgNetwork       == "We couldn't reach the AI service. Please check your connection and try again."
MsgGateway(code) == "The AI service returned an error (HTTP " \o ToString(code) \o "). Please try again."
MsgImageInternal == "Something went wrong while processing the image. Please try again."
MsgTextInternal  == "Something went wrong while processing your request. Please try again."
MsgAttach        == "Please attach an image to analyze."
MsgChoose        == "Please choose an image file to upload."
MsgTooLarge      == "The image is too large (max 10MB). Please upload a smaller file."
MsgServer        == "Something went wrong on our side. Please try again."
MsgMissing       == "Please provide a message or an image to analyze."
MsgInvalidData   == "Invalid image data. Please re-upload the image."
DefaultQuery     == "Please analyze this medical image and explain your findings."
AppMsgApi(code)  == "API error: " \o ToString(code)
AppMsgInternal   == "Something went wrong. Please try again."
AppMsgMissing    == "Please provide a message or image"
AppMsgChat       == "Something went wrong"
AppDefaultQuery  == "What do you see in this image?"

Scout    == "meta-llama/llama-4-scout-17b-16e-instruct"
Maverick == "meta-llama/llama-4-maverick-17b-128e-instruct"

\* len(image_content) > 10 * 1024 * 1024
MaxImageBytes == 10 * 1024 * 1024

(***************************************************************************)
(* Inputs: inbound requests and gateway outcomes                           *)
(***************************************************************************)
\* uploaded or decoded bytes: how many, and whether PIL's verify() accepts them
ImageBytes ==
    {[size |-> n, valid |-> v] :
        n \in {0, 2048, MaxImageBytes, MaxImageBytes + 1}, v \in BOOLEAN}
    \ {[size |-> 0, valid |-> TRUE]}
NoBytes == [size |-> 0, valid |-> FALSE]

QueryTexts == {<<>>, <<SP>>, <<"hi">>, <<SP, "hi", NL>>}

\* One shape for the requests of every endpoint.
\*   isJson     request.is_json
\*   jsonShape  "object": get_json gives a dict (or nothing); "other": a list, ...
\*   textKind   "absent": no text field; "str": a string; "nonstr": null, number, ...
\*   urlKind    image_data_url: "absent", "empty", "nocomma", "badb64" or "ok"
\*   hasFile    a part named "image" is in request.files
\*   fnEmpty    that part's filename is ''
\*   hasQuery   /analyze: the form has a "query" field (text holds it)
\*   bytes      the bytes of the file, or the bytes the data URL decodes to
Request(isJson, jsonShape, textKind, text, urlKind, hasFile, fnEmpty, hasQuery, bytes) ==
    [isJson |-> isJson, jsonShape |-> jsonShape, textKind |-> textKind, text |-> text,
     urlKind |-> urlKind, hasFile |-> hasFile, fnEmpty |-> fnEmpty,
     hasQuery |-> hasQuery, bytes |-> bytes]

NoRequest == Request(FALSE, "object", "absent", <<>>, "absent", FALSE, FALSE, FALSE, NoBytes)

TextFields == {<<"absent", <<>> >>} \cup {<<"str", t>> : t \in QueryTexts}
UrlFields  == {<<k, NoBytes>> : k \in {"absent", "empty", "nocomma", "badb64"}}
              \cup {<<"ok", b>> : b \in ImageBytes}
FileFields == {<<FALSE, FALSE, NoBytes>>}
              \cup {<<TRUE, e, b>> : e \in BOOLEAN, b \in ImageBytes}

\* main.py /chat: a JSON body or a form, text and image_data_url
MainChatRequests ==
    {Request(TRUE, "object", t[1], t[2], u[1], FALSE, FALSE, FALSE, u[2]) :
        t \in TextFields \cup {<<"nonstr", <<>> >>}, u \in UrlFields}
    \cup {Request(TRUE, "other", "absent", <<>>, "absent", FALSE, FALSE, FALSE, NoBytes)}
    \cup {Request(FALSE, "object", t[1], t[2], u[1], FALSE, FALSE, FALSE, u[2]) :
        t \in TextFields, u \in UrlFields}

\* main.py /analyze: a multipart form, file "image" and field "query"
AnalyzeRequests ==
    {Request(FALSE, "object", "absent", q[2], "absent", f[1], f[2], q[1] = "str", f[3]) :
        q \in {<<"absent", <<>> >>, <<"str", <<"hi">> >>, <<"str", <<>> >>}, f \in FileFields}

\* app.py /chat: a multipart form, field "text" and file "image"
AppChatRequests ==
    {Request(FALSE, "object", t[1], t[2], "absent", f[1], f[2], FALSE, f[3]) :
        t \in TextFields, f \in FileFields}

\* what one outbound POST can come to
\*   "ok"        HTTP 200, choices[0].message.content is the string content
\*   "ok_null"   HTTP 200, choices[0].message.content is null
\*   "malformed" HTTP 200, the body has no choices[0].message.content
\*   "non200"    any other status (code)
\*   "timeout"   requests.exceptions.Timeout
\*   "network"   any other requests.exceptions.RequestException
\* A 200 whose body is not JSON raises a RequestException in current
\* versions of requests and a plain ValueError in old ones: it behaves as
\* "network" or as "malformed".
Outcome(kind, code, content) == [kind |-> kind, code |-> code, content |-> content]

ContentAlphabet == {NL, STAR, "foo", "bar"}
Contents == UNION {[1..k -> ContentAlphabet] : k \in 0..MaxContentLen}

GatewayOutcomes ==
    {Outcome("ok", 200, c) : c \in Contents}
    \cup {Outcome("ok_null", 200, <<>>), Outcome("malformed", 200, <<>>),
          Outcome("non200", 500, <<>>), Outcome("non200", 429, <<>>),
          Outcome("timeout", 0, <<>>), Outcome("network", 0, <<>>)}

(***************************************************************************)
(* State                                                                   *)
(***************************************************************************)
VARIABLES
    module,     \* "main" or "app": the handler module serving the request
    endpoint,   \* "chat" or "analyze"
    req,        \* the inbound request
    pc,         \* "idle", "text_call", "scout_call", "maverick_call",
                \* "image_call" (app.py) or "done"
    query,      \* the query handed to process_text / process_image
    verify,     \* Image.verify(): "none" (not run), "ok" or "fail"
    calls,      \* the models of the outbound POSTs issued, in order
    returns,    \* the outcomes of the POSTs that have returned, in order
    scout,      \* process_image's local: the first variant's result
    fmtArgs,    \* the texts _format_as_bullets was called with, in order
    reply,      \* [sent, body, status]: the JSON body and the HTTP status
    fmtIn, fmtOut, fmtOut2, fmtPc   \* the formatter on its own (SpecFmt)

hVars == <<module, endpoint, req, pc, query, verify, calls, returns, scout,
           fmtArgs, reply>>
fmtVars == <<fmtIn, fmtOut, fmtOut2, fmtPc>>
vars == <<hVars, fmtVars>>

NoReply == [sent |-> FALSE, body |-> <<>>, status |-> 0]
\* jsonify(body), status: a JSON object is a function from its keys
Json(key, val, status) == [sent |-> TRUE, body |-> (key :> val), status |-> status]
ErrorReply(msg, status) == Json("error", Some(<<msg>>), status)

HandlerIdle ==
    /\ module = "main"
    /\ endpoint = "chat"
    /\ req = NoRequest
    /\ pc = "idle"
    /\ query = <<>>
    /\ verify = "none"
    /\ calls = <<>>
    /\ returns = <<>>
    /\ scout = None
    /\ fmtArgs = <<>>
    /\ reply = NoReply

FmtOff ==
    /\ fmtIn = <<>>
    /\ fmtOut = <<>>
    /\ fmtOut2 = <<>>
    /\ fmtPc = "off"

Init == HandlerIdle /\ FmtOff

(***************************************************************************)
(* The handlers up to their first outbound POST.  Each gives the handler's *)
(* next position: [pc, query, verify, calls, reply].                       *)
(***************************************************************************)
Step(p, q, v, c, r) == [pc |-> p, query |-> q, verify |-> v, calls |-> c, reply |-> r]

\* return jsonify({"error": msg}), status   before anything else was done
Rejected(msg, status) == Step("done", <<>>, "none", <<>>, ErrorReply(msg, status))

\* requests.post(...): one POST for one model, appended to the log of calls
\* mutant: the POST is attempted a second time
IssueCall_Retry(log, model) == log \o <<model, model>>

IssueCall(log, model) == Append(log, model)

\* Image.open(io.BytesIO(image_content)).verify() does not raise
\* mutant: verification accepts every input
verify_image_Always(bytes) == TRUE

verify_image(bytes) == bytes.valid

\* main.py process_image, lines 37-91: verification, then the first POST
process_image_start(bytes, q) ==
    IF ~verify_image(bytes)
    THEN Step("done", q, "fail", <<>>, ErrorReply(MsgUnreadable, 200))
    ELSE Step("scout_call", q, "ok", IssueCall(<<>>, Scout), NoReply)

\* main.py process_text, lines 102-127: the POST
process_text_start(q) ==
    Step("text_call", q, "none", IssueCall(<<>>, Scout), NoReply)

\* main.py chat: the request up to process_image / process_text
chat_main(r) ==
    IF r.isJson /\ (r.jsonShape = "other" \/ r.textKind = "nonstr")
    THEN \* data.get / .strip() raises AttributeError: the outer except
         Rejected(MsgServer, 500)
    ELSE LET text   == Strip(r.text)
             hasUrl == r.urlKind \notin {"absent", "empty"}
         IN  IF text = <<>> /\ ~hasUrl
             THEN Rejected(MsgMissing, 400)
             ELSE IF hasUrl
             THEN IF r.urlKind \in {"nocomma", "badb64"}
                  THEN Rejected(MsgInvalidData, 400)
                  ELSE process_image_start(r.bytes,
                          IF text # <<>> THEN text ELSE <<DefaultQuery>>)
             ELSE process_text_start(text)

\* main.py analyze: the request up to process_image
analyze_main(r) ==
    IF ~r.hasFile THEN Rejected(MsgAttach, 400)
    ELSE IF r.fnEmpty THEN Rejected(MsgChoose, 400)
    ELSE IF r.bytes.size > MaxImageBytes THEN Rejected(MsgTooLarge, 400)
    ELSE process_image_start(r.bytes, IF r.hasQuery THEN r.text ELSE <<DefaultQuery>>)

\* app.py process_image, lines 23-58: the data URL built by chat decodes to
\* the uploaded bytes; verification, then the POST
app_process_image_start(bytes, q) ==
    IF ~verify_image(bytes)
    THEN Step("done", q, "fail", <<>>, ErrorReply(MsgUnreadable, 200))
    ELSE Step("image_call", q, "ok", IssueCall(<<>>, Scout), NoReply)

\* app.py chat: a FileStorage is falsy when its filename is empty
chat_app(r) ==
    LET text    == Strip(r.text)
        hasFile == r.hasFile /\ ~r.fnEmpty
    IN  IF text = <<>> /\ ~hasFile
        THEN Rejected(AppMsgMissing, 200)
        ELSE IF hasFile
        THEN app_process_image_start(r.bytes,
                IF text # <<>> THEN text ELSE <<AppDefaultQuery>>)
        ELSE process_text_start(text)

(***************************************************************************)
(* The handlers after an outbound POST has returned                        *)
(***************************************************************************)
\* main.py process_text, lines 129-140
process_text_result(o) ==
    CASE o.kind = "ok"        -> Json("response", Some(format_as_bullets(o.content)), 200)
      [] o.kind = "ok_null"   -> Json("response", Some(format_as_bullets(OrEmpty(None))), 200)
      [] o.kind = "non200"    -> ErrorReply(MsgGateway(o.code), 200)
      [] o.kind = "timeout"   -> ErrorReply(MsgTimeout, 200)
      [] o.kind = "network"   -> ErrorReply(MsgNetwork, 200)
      [] o.kind = "malformed" -> ErrorReply(MsgTextInternal, 200)

\* app.py process_text and process_image, lines 60-68 and 94-102
app_process_result(o) ==
    CASE o.kind = "ok"        -> Json("response", Some(o.content), 200)
      [] o.kind = "ok_null"   -> Json("response", None, 200)
      [] o.kind = "non200"    -> ErrorReply(AppMsgApi(o.code), 200)
      [] OTHER                -> ErrorReply(AppMsgInternal, 200)

\* main.py process_image.make_api_request, lines 81-89: the value returned,
\* or raised when the exception is none of those it catches
make_api_request(o) ==
    CASE o.kind = "ok"        -> [raised |-> FALSE, value |-> Some(o.content)]
      [] o.kind = "ok_null"   -> [raised |-> FALSE, value |-> None]
      [] o.kind = "non200"    -> [raised |-> FALSE, value |-> Some(<<MsgGateway(o.code)>>)]
      [] o.kind = "timeout"   -> [raised |-> FALSE, value |-> Some(<<MsgTimeout>>)]
      [] o.kind = "network"   -> [raised |-> FALSE, value |-> Some(<<MsgNetwork>>)]
      [] o.kind = "malformed" -> [raised |-> TRUE, value |-> None]

\* "\n".join([str(scout or ""), str(maverick or "")])
\* mutant: the two variants are joined in the other order
CombinedText_Swapped(a, b) == OrEmpty(b) \o <<NL>> \o OrEmpty(a)

CombinedText(a, b) == OrEmpty(a) \o <<NL>> \o OrEmpty(b)

(***************************************************************************)
(* Actions                                                                 *)
(***************************************************************************)
\* POST /chat served by main.py
ChatMain ==
    \E r \in MainChatRequests :
        LET s == chat_main(r) IN
        /\ pc = "idle"
        /\ module' = "main"
        /\ endpoint' = "chat"
        /\ req' = r
        /\ pc' = s.pc
        /\ query' = s.query
        /\ verify' = s.verify
        /\ calls' = s.calls
        /\ reply' = s.reply
        /\ UNCHANGED <<returns, scout, fmtArgs, fmtVars>>

\* POST /analyze served by main.py
AnalyzeMain ==
    \E r \in AnalyzeRequests :
        LET s == analyze_main(r) IN
        /\ pc = "idle"
        /\ module' = "main"
        /\ endpoint' = "analyze"
        /\ req' = r
        /\ pc' = s.pc
        /\ query' = s.query
        /\ verify' = s.verify
        /\ calls' = s.calls
        /\ reply' = s.reply
        /\ UNCHANGED <<returns, scout, fmtArgs, fmtVars>>

\* POST /chat served by app.py
ChatApp ==
    \E r \in AppChatRequests :
        LET s == chat_app(r) IN
        /\ pc = "idle"
        /\ module' = "app"
        /\ endpoint' = "chat"
        /\ req' = r
        /\ pc' = s.pc
        /\ query' = s.query
        /\ verify' = s.verify
        /\ calls' = s.calls
        /\ reply' = s.reply
        /\ UNCHANGED <<returns, scout, fmtArgs, fmtVars>>

\* process_text's POST returns (either module)
TextReturns ==
    \E o \in GatewayOutcomes :
        /\ pc = "text_call"
        /\ returns' = Append(returns, o)
        /\ reply' = IF module = "main" THEN process_text_result(o)
                    ELSE app_process_result(o)
        /\ fmtArgs' = IF module = "main" /\ o.kind \in {"ok", "ok_null"}
                      THEN Append(fmtArgs, o.content) ELSE fmtArgs
        /\ pc' = "done"
        /\ UNCHANGED <<module, endpoint, req, query, verify, calls, scout, fmtVars>>

\* main.py process_image: make_api_request(scout model) returns, and the
\* POST for the second variant is issued
ScoutReturns ==
    \E o \in GatewayOutcomes :
        LET r == make_api_request(o) IN
        /\ pc = "scout_call"
        /\ returns' = Append(returns, o)
        /\ IF r.raised
           THEN /\ reply' = ErrorReply(MsgImageInternal, 200)
                /\ pc' = "done"
                /\ UNCHANGED <<scout, calls>>
           ELSE /\ scout' = r.value
                /\ calls' = IssueCall(calls, Maverick)
                /\ pc' = "maverick_call"
                /\ UNCHANGED reply
        /\ UNCHANGED <<module, endpoint, req, query, verify, fmtArgs, fmtVars>>

\* main.py process_image: make_api_request(maverick model) returns; the two
\* results are joined, formatted and returned
MaverickReturns ==
    \E o \in GatewayOutcomes :
        LET r == make_api_request(o) IN
        /\ pc = "maverick_call"
        /\ returns' = Append(returns, o)
        /\ IF r.raised
           THEN /\ reply' = ErrorReply(MsgImageInternal, 200)
                /\ UNCHANGED fmtArgs
           ELSE LET combined_text == CombinedText(scout, r.value) IN
                /\ fmtArgs' = Append(fmtArgs, combined_text)
                /\ reply' = Json("response", Some(format_as_bullets(combined_text)), 200)
        /\ pc' = "done"
        /\ UNCHANGED <<module, endpoint, req, query, verify, calls, scout, fmtVars>>

\* app.py process_image's single POST returns
AppImageReturns ==
    \E o \in GatewayOutcomes :
        /\ pc = "image_call"
        /\ returns' = Append(returns, o)
        /\ reply' = app_process_result(o)
        /\ pc' = "done"
        /\ UNCHANGED <<module, endpoint, req, query, verify, calls, scout, fmtArgs, fmtVars>>

\* the reply is sent; nothing of the request is kept
Finish ==
    /\ pc = "done"
    /\ module' = "main"
    /\ endpoint' = "chat"
    /\ req' = NoRequest
    /\ pc' = "idle"
    /\ query' = <<>>
    /\ verify' = "none"
    /\ calls' = <<>>
    /\ returns' = <<>>
    /\ scout' = None
    /\ fmtArgs' = <<>>
    /\ reply' = NoReply
    /\ UNCHANGED fmtVars

Next ==
    \/ ChatMain
    \/ AnalyzeMain
    \/ ChatApp
    \/ TextReturns
    \/ ScoutReturns
    \/ MaverickReturns
    \/ AppImageReturns
    \/ Finish

Spec == Init /\ [][Next]_vars

(***************************************************************************)
(* The formatter on its own: SpecFmt applies it once and then again to     *)
(* its own output, for every text of at most MaxLen characters and for the *)
(* example of the specification.                                           *)
(***************************************************************************)
FmtAlphabet == {NL, SP, TAB, STAR, DASH, BULLET, "foo", "bar"}

TextsUpTo(alphabet, n) == UNION {[1..k -> alphabet] : k \in 0..n}

ExampleIn  == <<STAR, SP, "foo", NL, NL, "bar", NL, DASH, SP, "baz">>
ExampleOut == <<DASH, SP, "foo", NL, DASH, SP, "bar", NL, DASH, SP, "baz">>

FmtInit ==
    /\ HandlerIdle
    /\ fmtIn \in TextsUpTo(FmtAlphabet, MaxLen) \cup {ExampleIn}
    /\ fmtOut = <<>>
    /\ fmtOut2 = <<>>
    /\ fmtPc = "input"

FormatOnce ==
    /\ fmtPc = "input"
    /\ fmtOut' = format_as_bullets(fmtIn)
    /\ fmtPc' = "once"
    /\ UNCHANGED <<fmtIn, fmtOut2, hVars>>

FormatTwice ==
    /\ fmtPc = "once"
    /\ fmtOut2' = format_as_bullets(fmtOut)
    /\ fmtPc' = "twice"
    /\ UNCHANGED <<fmtIn, fmtOut, hVars>>

FmtNext == FormatOnce \/ FormatTwice

SpecFmt == FmtInit /\ [][FmtNext]_vars

(***************************************************************************)
(* Vocabulary of the properties                                            *)
(***************************************************************************)
\* the request carries an image: a file part with a file name, or a data
\* URL that decodes to bytes
CarriesImage ==
    /\ pc # "idle"
    /\ \/ req.hasFile /\ ~req.fnEmpty
       \/ req.urlKind = "ok"

\* the reply is the JSON object {"error": msg}
IsError(msg) == reply.sent /\ reply.body = ("error" :> Some(<<msg>>))

\* the text has at least one line that survives bullet formatting
HasBullets(t) == BulletLines(SplitLines(t)) # <<>>

\* text t begins with "- "
StartsWithDash(t) == Len(t) >= 2 /\ t[1] = DASH /\ t[2] = SP

\* the lines of a text, by the positions of its newlines
NewlinesOf(t) == {i \in 1..Len(t) : t[i] = NL}
LineCount(t) == Cardinality(NewlinesOf(t)) + 1
NewlineAt(t, k) ==
    IF k = 0 THEN 0
    ELSE IF k > Cardinality(NewlinesOf(t)) THEN Len(t) + 1
    ELSE CHOOSE i \in NewlinesOf(t) : Cardinality({j \in NewlinesOf(t) : j <= i}) = k
LineAt(t, k) == SubSeq(t, NewlineAt(t, k - 1) + 1, NewlineAt(t, k) - 1)

SetMin(S) == CHOOSE x \in S : \A y \in S : x <= y
SetMax(S) == CHOOSE x \in S : \A y \in S : x >= y

\* a line trimmed of surrounding whitespace and then of every leading
\* '*', '-', bullet and space
ContentOf(ln) ==
    LET inked == {i \in 1..Len(ln) : ln[i] \notin Whitespace} IN
    IF inked = {} THEN <<>>
    ELSE LET last == SetMax(inked)
             body == {i \in SetMin(inked)..last : ln[i] \notin MarkerChars}
         IN  IF body = {} THEN <<>> ELSE SubSeq(ln, SetMin(body), last)

Surviving(t) == {k \in 1..LineCount(t) : ContentOf(LineAt(t, k)) # <<>>}
KthSurviving(t, j) ==
    CHOOSE k \in Surviving(t) : Cardinality({m \in Surviving(t) : m <= k}) = j

\* out is the newline-join, in order, of "- " + content for the surviving
\* lines of t, or t itself when none survives
IsBulletForm(t, out) ==
    IF Surviving(t) = {} THEN out = t
    ELSE /\ LineCount(out) = Cardinality(Surviving(t))
         /\ \A j \in 1..Cardinality(Surviving(t)) :
               LineAt(out, j) = <<DASH, SP>> \o ContentOf(LineAt(t, KthSurviving(t, j)))

(***************************************************************************)
(* Properties                                                              *)
(***************************************************************************)

\* C1: a request whose image fails verification is answered with exactly
\* {error: "We couldn't read that image. Please upload a valid JPG or PNG."},
\* in either module and on either endpoint, and no request carrying bytes
\* that are not an image ever causes an outbound call.
C1_UnreadableImage ==
    /\ (verify = "fail" => IsError(MsgUnreadable) /\ calls = <<>> /\ returns = <<>>)
    /\ (CarriesImage /\ ~req.bytes.valid =>
            /\ calls = <<>>
            /\ pc = "done"
            /\ verify = "fail" \/ (verify = "none" /\ reply.status \in 400..599))

C1_Witness ==
    /\ pc = "done"
    /\ verify = "fail"
    /\ CarriesImage
    /\ req.bytes.size > 0

\* C2: a request carrying an image of more than 10 MiB is rejected with an
\* {error} body and HTTP 400 before any outbound call, on every entry point
\* (stated here for bytes that are a well-formed image).
C2_LargeImageRejected ==
    CarriesImage /\ req.bytes.valid /\ req.bytes.size > MaxImageBytes =>
        /\ calls = <<>>
        /\ pc = "done"
        /\ DOMAIN reply.body = {"error"}
        /\ reply.status = 400

\* C3: when an outbound call of main.py times out, the client receives
\* {error: "Request timed out. Please try again."}, on the text path and on
\* the image path.
C3_TimeoutIsError ==
    /\ module = "main"
    /\ pc = "done"
    /\ \E i \in 1..Len(returns) : returns[i].kind = "timeout"
    => IsError(MsgTimeout)

\* C4: every reply is {response: string} with a success status or
\* {error: string} with a 4xx/5xx status.
C4_ReplyShape ==
    pc = "done" =>
        \/ DOMAIN reply.body = {"response"} /\ reply.status \in 200..299
        \/ DOMAIN reply.body = {"error"} /\ reply.status \in 400..599

\* C5: a /chat request with no text (absent, or empty once stripped) and no
\* image is rejected with {error: "Please provide a message or an image..."}
\* and HTTP 400, without an outbound call.
C5_MissingInput ==
    /\ pc = "done"
    /\ endpoint = "chat"
    /\ req.jsonShape = "object"
    /\ req.textKind \in {"absent", "str"}
    /\ Strip(req.text) = <<>>
    /\ ~req.hasFile
    /\ req.urlKind \in {"absent", "empty"}
    => IsError(MsgMissing) /\ reply.status = 400 /\ calls = <<>>

\* C6: whatever the outbound call comes to, main.py's process_text returns
\* exactly one of response/error, and a response is a non-empty text every
\* line of which starts with "- ".
C6_TextResult ==
    /\ module = "main"
    /\ pc = "done"
    /\ verify = "none"
    /\ Len(returns) = 1
    => /\ Cardinality(DOMAIN reply.body) = 1
       /\ DOMAIN reply.body \subseteq {"response", "error"}
       /\ "response" \in DOMAIN reply.body =>
             LET text == reply.body["response"] IN
             /\ ~text.none
             /\ text.str # <<>>
             /\ \A k \in 1..LineCount(text.str) : StartsWithDash(LineAt(text.str, k))

\* C7: _format_as_bullets is idempotent: formatting its own output changes
\* nothing, also when the no-lines-survive fallback is taken.
C7_Idempotent == fmtPc = "twice" => fmtOut2 = fmtOut

C7_Witness ==
    /\ fmtPc = "twice"
    /\ fmtOut # fmtIn
    /\ LineCount(fmtOut) >= 2

\* C8: _format_as_bullets gives the newline-join, in the original order, of
\* "- " + c for every line whose content c is not empty, drops the other
\* lines, and gives the text back unchanged when no line survives; the
\* example "* foo\n\nbar\n- baz" gives "- foo\n- bar\n- baz".
C8_BulletForm ==
    fmtPc \in {"once", "twice"} =>
        /\ IsBulletForm(fmtIn, fmtOut)
        /\ fmtIn = ExampleIn => fmtOut = ExampleOut

C8_Witness ==
    /\ fmtPc = "once"
    /\ fmtIn = ExampleIn
    /\ fmtOut = ExampleOut

\* C9: when both variant calls of main.py's process_image succeed, the
\* formatter is handed the first variant's text, a newline and the second
\* variant's text, so the bullets of the first precede those of the second,
\* and the formatter runs only once both calls have returned.
C9_VariantOrder ==
    /\ (module = "main" /\ verify = "ok" /\ fmtArgs # <<>> => Len(returns) = 2)
    /\ (/\ module = "main"
        /\ pc = "done"
        /\ Len(returns) = 2
        /\ returns[1].kind = "ok"
        /\ returns[2].kind = "ok"
        => LET a == returns[1].content
               b == returns[2].content
           IN  /\ fmtArgs = << a \o <<NL>> \o b >>
               /\ reply.sent
               /\ reply.body =
                    ("response" :> Some(
                        IF HasBullets(a) /\ HasBullets(b)
                        THEN format_as_bullets(a) \o <<NL>> \o format_as_bullets(b)
                        ELSE IF HasBullets(a) THEN format_as_bullets(a)
                        ELSE IF HasBullets(b) THEN format_as_bullets(b)
                        ELSE a \o <<NL>> \o b)))

C9_Witness ==
    /\ module = "main"
    /\ pc = "done"
    /\ Len(returns) = 2
    /\ returns[1].kind = "ok"
    /\ returns[2].kind = "ok"
    /\ HasBullets(returns[1].content)
    /\ HasBullets(returns[2].content)
    /\ returns[1].content # returns[2].content

\* the /chat request main.py hands to process_text
MainTextRequest ==
    /\ endpoint = "chat"
    /\ ~(req.isJson /\ (req.jsonShape = "other" \/ req.textKind = "nonstr"))
    /\ Strip(req.text) # <<>>
    /\ req.urlKind \in {"absent", "empty"}

\* no outbound call is repeated, and each has returned before the next
NoRetry ==
    /\ Len(calls) <= 2
    /\ Len(calls) = 2 => calls[1] # calls[2]
    /\ Len(returns) <= Len(calls)
    /\ Len(calls) <= Len(returns) + 1

====
